---- MODULE Spec2Model ----
(***************************************************************************)
(* libadt singly linked list (list.c, list.h).                             *)
(*                                                                         *)
(* The heap is a finite set of node cells.  malloc returns any cell that   *)
(* is not currently allocated (a cell freed earlier may be handed out      *)
(* again) or NULL.  A node pointer is a cell address, NULL is 0.           *)
(***************************************************************************)
EXTENDS Integers, Sequences, FiniteSets, TLC

MaxNodes == 3   \* cells the allocator can hand out
MaxData == 2    \* distinct data references a caller stores

NULL == 0
Addr == 1..MaxNodes
Data == 1..MaxData

\* Content of a cell that is not allocated.  No operation reads a field of
\* such a cell (every allocation path stores data and next before the node
\* is linked), so one placeholder stands for its indeterminate content.
Junk == [data |-> 0, next |-> NULL]

VARIABLES
  head,       \* list->head
  tail,       \* list->tail
  len,        \* list->len
  mem,        \* heap cells: address -> struct ADT_sl_node
  live,       \* cells malloc has returned and free has not yet taken back
  proc,       \* "running", "aborted" (assert failed) or "segv" (NULL dereferenced)
  pc,         \* "idle", or "destroy" while ADT_sl_list_destroy is in its loop
  call,       \* the last call: operation, arguments, malloc result, return value, *data
  pre,        \* items and length at entry to the last call, kept when that call is a push or a destroy
  destroyed,  \* data references the destroy in progress, or just returned, gave the destructor
  uaf,        \* TRUE once a call has written through a pointer to a freed node
  kind,       \* which operations have been used since init
  log,        \* nodes inserted since init that the usage so far leaves in the list
  due         \* oldest logged data when the last dequeue was called

vars == <<head, tail, len, mem, live, proc, pc, call, pre, destroyed, uaf, kind, log, due>>

(***************************************************************************)
(* The list as a value, and reading it                                     *)
(***************************************************************************)
ListRec(h, t, n, m, l) == [head |-> h, tail |-> t, len |-> n, mem |-> m, live |-> l]

List == ListRec(head, tail, len, mem, live)

\* Addresses met following next from p, at most fuel of them.
RECURSIVE Walk(_, _, _)
Walk(m, p, fuel) ==
  IF p = NULL \/ fuel = 0 THEN <<>>
  ELSE <<p>> \o Walk(m, m[p].next, fuel - 1)

ChainOf(L) == Walk(L.mem, L.head, MaxNodes + 1)

ItemsOf(L) ==
  LET c == ChainOf(L)
  IN [i \in 1..Len(c) |-> L.mem[c[i]].data]

Chain == ChainOf(List)
Items == ItemsOf(List)
Members == {Chain[i] : i \in 1..Len(Chain)}

\* A sequence back to front.
Reverse(s) == [i \in 1..Len(s) |-> s[Len(s) + 1 - i]]

\* Position of x in s (0 when absent), and s with position i left out.
IndexOf(s, x) == IF \E i \in 1..Len(s) : s[i] = x
                 THEN CHOOSE i \in 1..Len(s) : s[i] = x
                 ELSE 0

Without(s, i) == [j \in 1..(Len(s) - 1) |-> IF j < i THEN s[j] ELSE s[j + 1]]

\* s with x put in right after position i.
InsertAt(s, i, x) ==
  [j \in 1..(Len(s) + 1) |-> IF j <= i THEN s[j] ELSE IF j = i + 1 THEN x ELSE s[j - 1]]

\* unsigned int ADT_sl_list_length(list).  len is the number of allocated
\* cells (TypeOK), so it stays far from the width of unsigned int.
ADT_sl_list_length(L) == L.len

\* What malloc may return: a cell not in use, or NULL.
MallocResults == (Addr \ live) \cup {NULL}

(***************************************************************************)
(* The operations as functions of the list (list.c)                        *)
(***************************************************************************)

\* ADT_sl_list_init: head = NULL, tail = NULL, len = 0.
ADT_sl_list_init(m, l) == ListRec(NULL, NULL, 0, m, l)

\* push with the old chain dropped: node->next = NULL instead of list->head.
push_drop_rest(L, node, data) ==
  ListRec(node,
          IF ADT_sl_list_length(L) = 0 THEN node ELSE L.tail,
          L.len + 1,
          [L.mem EXCEPT ![node] = [data |-> data, next |-> NULL]],
          L.live \cup {node})

\* push without the length test: list->tail = node on every push.
push_always_tail(L, node, data) ==
  ListRec(node,
          node,
          L.len + 1,
          [L.mem EXCEPT ![node] = [data |-> data, next |-> L.head]],
          L.live \cup {node})

\* ADT_sl_list_push once malloc has returned node # NULL.
push(L, node, data) ==
  ListRec(node,
          IF ADT_sl_list_length(L) = 0 THEN node ELSE L.tail,
          L.len + 1,
          [L.mem EXCEPT ![node] = [data |-> data, next |-> L.head]],
          L.live \cup {node})

\* Return value of ADT_sl_list_push.
push_ret(node) == IF node = NULL THEN -1 ELSE 0

\* pop handing back the data of the tail node instead of the head's.
pop_data_of_tail(L) == L.mem[L.tail].data

\* *data = list->head->data in ADT_sl_list_pop.
pop_data(L) == L.mem[L.head].data

\* ADT_sl_list_pop past its assert, with head # NULL: unlink and free the head.
pop(L) ==
  ListRec(L.mem[L.head].next,
          L.tail,
          L.len - 1,
          [L.mem EXCEPT ![L.head] = Junk],
          L.live \ {L.head})

\* append linking the new node in front of the head, as push does.
append_at_head(L, node, data) ==
  ListRec(node,
          L.tail,
          L.len + 1,
          [L.mem EXCEPT ![node] = [data |-> data, next |-> L.head]],
          L.live \cup {node})

\* The else branch of ADT_sl_list_append once malloc has returned node # NULL:
\* node->data = data; node->next = NULL; list->tail->next = node;
\* list->tail = node; list->len++.  The store through list->tail lands in the
\* cell tail points to when that cell is allocated (node itself included);
\* a store into a freed cell changes no allocated node.
append(L, node, data) ==
  LET m1 == [L.mem EXCEPT ![node] = [data |-> data, next |-> NULL]]
      l1 == L.live \cup {node}
      m2 == IF L.tail \in l1 THEN [m1 EXCEPT ![L.tail].next = node] ELSE m1
  IN ListRec(L.head, node, L.len + 1, m2, l1)

\* Return value of ADT_sl_list_append: the result of the delegated push is
\* dropped, so the empty-list branch always falls through to return 0.
append_ret(L, node) ==
  IF ADT_sl_list_length(L) = 0 THEN 0
  ELSE IF node = NULL THEN -1 ELSE 0

\* ADT_sl_list_insert_after once malloc has returned node # NULL.
insert_after(L, loc, node, data) ==
  LET m1 == [L.mem EXCEPT ![node] = [data |-> data, next |-> L.mem[loc].next]]
  IN ListRec(L.head,
             IF loc = L.tail THEN node ELSE L.tail,
             L.len + 1,
             [m1 EXCEPT ![loc].next = node],
             L.live \cup {node})

\* Return value of ADT_sl_list_insert_after.
insert_after_ret(node) == IF node = NULL THEN -1 ELSE 0

\* *data = loc->next->data in ADT_sl_list_remove_after.
remove_after_data(L, loc) == L.mem[L.mem[loc].next].data

\* ADT_sl_list_remove_after past its assert, with loc->next # NULL.
\* list->tail is not assigned.
remove_after(L, loc) ==
  LET ptr == L.mem[loc].next
  IN ListRec(L.head,
             L.tail,
             L.len - 1,
             [L.mem EXCEPT ![loc].next = L.mem[ptr].next, ![ptr] = Junk],
             L.live \ {ptr})

\* pop with its assert compiled out.
pop_assert_off(L) == TRUE

\* assert(ADT_sl_list_length(list) != 0) in ADT_sl_list_pop.
pop_assert(L) == ADT_sl_list_length(L) # 0

\* assert(loc != list->tail) in ADT_sl_list_remove_after.
remove_after_assert(L, loc) == loc # L.tail

(***************************************************************************)
(* Bookkeeping of a call                                                   *)
(***************************************************************************)
Store(L) ==
  /\ head' = L.head
  /\ tail' = L.tail
  /\ len'  = L.len
  /\ mem'  = L.mem
  /\ live' = L.live

\* data is the reference the call stored in its new node (0 when it made no
\* node), out the reference it handed back through its void ** argument;
\* afterPush says the call before it was a push whose malloc succeeded.
Call(op, data, loc, node, ret, out, afterPush) ==
  [op |-> op, data |-> data, loc |-> loc, node |-> node, ret |-> ret, out |-> out,
   afterPush |-> afterPush]

Snapshot == [items |-> Items, len |-> len]

NoSnapshot == [items |-> <<>>, len |-> 0]

\* Usage since init: "fresh" (nothing yet), "append" (appends only), "push"
\* (pushes only), "queue" (enqueues and dequeues only), "refilled" (a queue
\* that has been emptied and enqueued into again), "mixed" (anything else).
KindAfter(k, op, node) ==
  CASE op = "append" ->
         (IF k \in {"fresh", "append"} THEN "append"
          ELSE IF k = "queue" THEN (IF len = 0 /\ node # NULL THEN "refilled" ELSE "queue")
          ELSE IF k = "refilled" THEN "refilled"
          ELSE "mixed")
    [] op = "push" -> (IF k \in {"fresh", "push"} THEN "push" ELSE "mixed")
    [] op = "pop"  -> (IF k \in {"append", "queue"} THEN "queue"
                       ELSE IF k = "refilled" THEN "refilled"
                       ELSE "mixed")
    [] OTHER -> "mixed"

\* The log follows what the allocator did, not what the list holds: a node is
\* logged when malloc returned it to push/append, and the oldest entry leaves
\* when pop is called.
LogAfter(k, op, data, node) ==
  IF KindAfter(k, op, node) = "mixed" THEN <<>>
  ELSE IF op \in {"push", "append"} THEN
         (IF node = NULL THEN log ELSE Append(log, [node |-> node, data |-> data]))
  ELSE IF op = "pop" /\ log # <<>> THEN Tail(log)
  ELSE log

LogData == [i \in 1..Len(log) |-> log[i].data]

Record(op, data, loc, node, ret, out) ==
  /\ call' = Call(op, IF node = NULL THEN 0 ELSE data, loc, node, ret, out,
                  op = "pop" /\ call.op = "push" /\ call.node # NULL)
  /\ pre'  = IF op \in {"push", "destroy"} THEN Snapshot ELSE NoSnapshot
  /\ kind' = KindAfter(kind, op, node)
  /\ log'  = LogAfter(kind, op, data, node)
  /\ due'  = IF op = "pop" /\ KindAfter(kind, op, node) \in {"queue", "refilled"} /\ log # <<>>
             THEN Head(log).data ELSE 0
  /\ destroyed' = <<>>

Idle == proc = "running" /\ pc = "idle"

(***************************************************************************)
(* Initial state: ADT_sl_list_init on a newly created list, empty heap     *)
(***************************************************************************)
Init ==
  /\ LET L0 == ADT_sl_list_init([a \in Addr |-> Junk], {})
     IN /\ head = L0.head
        /\ tail = L0.tail
        /\ len  = L0.len
        /\ mem  = L0.mem
        /\ live = L0.live
  /\ proc = "running"
  /\ pc = "idle"
  /\ call = Call("init", 0, NULL, NULL, 0, 0, FALSE)
  /\ pre = NoSnapshot
  /\ destroyed = <<>>
  /\ uaf = FALSE
  /\ kind = "fresh"
  /\ log = <<>>
  /\ due = 0

(***************************************************************************)
(* Calls.  A caller keeps each call's documented precondition; what the    *)
(* call then does is the code's.                                           *)
(***************************************************************************)
Fault(how) ==
  /\ proc' = how
  /\ UNCHANGED <<head, tail, len, mem, live, pc>>

\* ADT_sl_list_push(list, data)
PushCall ==
  /\ Idle
  /\ \E data \in Data, node \in MallocResults :
       /\ IF node = NULL
          THEN UNCHANGED <<head, tail, len, mem, live>>
          ELSE Store(push(List, node, data))
       /\ Record("push", data, NULL, node, push_ret(node), 0)
  /\ UNCHANGED <<proc, pc, uaf>>

\* ADT_sl_list_pop(list, &data), called with ADT_sl_list_length(list) != 0
PopCall ==
  /\ Idle
  /\ ADT_sl_list_length(List) # 0
  /\ IF head = NULL
     THEN /\ Fault("segv")
          /\ Record("pop", 0, NULL, NULL, 0, 0)
     ELSE /\ Store(pop(List))
          /\ Record("pop", 0, NULL, NULL, 0, pop_data(List))
          /\ UNCHANGED <<proc, pc>>
  /\ UNCHANGED uaf

\* ADT_sl_list_append(list, data)
AppendCall ==
  /\ Idle
  /\ \E data \in Data, node \in MallocResults :
       /\ Record("append", data, NULL, node, append_ret(List, node), 0)
       /\ IF ADT_sl_list_length(List) = 0
          THEN /\ IF node = NULL
                  THEN UNCHANGED <<head, tail, len, mem, live>>
                  ELSE Store(push(List, node, data))
               /\ UNCHANGED <<proc, pc, uaf>>
          ELSE IF node = NULL
          THEN UNCHANGED <<head, tail, len, mem, live, proc, pc, uaf>>
          ELSE IF tail = NULL
          THEN Fault("segv") /\ UNCHANGED uaf
          ELSE /\ Store(append(List, node, data))
               \* list->tail->next = node is a store into freed memory when
               \* tail points to a cell that is free and is not the one malloc
               \* has just handed out
               /\ uaf' = (uaf \/ tail \notin live \cup {node})
               /\ UNCHANGED <<proc, pc>>

\* insert_after moving list->tail before it tests malloc's result.
InsertAfterCallTailFirst ==
  /\ Idle
  /\ \E loc \in Members, data \in Data, node \in MallocResults :
       /\ IF node = NULL
          THEN /\ tail' = IF loc = tail THEN node ELSE tail
               /\ UNCHANGED <<head, len, mem, live>>
          ELSE Store(insert_after(List, loc, node, data))
       /\ Record("insert_after", data, loc, node, insert_after_ret(node), 0)
  /\ UNCHANGED <<proc, pc, uaf>>

\* ADT_sl_list_insert_after(list, loc, data), loc a node of the list
InsertAfterCall ==
  /\ Idle
  /\ \E loc \in Members, data \in Data, node \in MallocResults :
       /\ IF node = NULL
          THEN UNCHANGED <<head, tail, len, mem, live>>
          ELSE Store(insert_after(List, loc, node, data))
       /\ Record("insert_after", data, loc, node, insert_after_ret(node), 0)
  /\ UNCHANGED <<proc, pc, uaf>>

\* ADT_sl_list_remove_after(list, loc, &data), loc a node of the list that
\* has a successor
RemoveAfterCall ==
  /\ Idle
  /\ \E loc \in Members :
       /\ mem[loc].next # NULL
       /\ IF loc = tail
          THEN /\ Fault("aborted")
               /\ Record("remove_after", 0, loc, NULL, 0, 0)
          ELSE /\ Store(remove_after(List, loc))
               /\ Record("remove_after", 0, loc, NULL, 0, remove_after_data(List, loc))
               /\ UNCHANGED <<proc, pc>>
  /\ UNCHANGED uaf

\* ADT_sl_list_destroy(list, destroy): entry
DestroyCall ==
  /\ Idle
  /\ pc' = "destroy"
  /\ Record("destroy", 0, NULL, NULL, 0, 0)
  /\ UNCHANGED <<head, tail, len, mem, live, proc, uaf>>

\* one turn of the loop: ADT_sl_list_pop(list, &data); (*destroy)(data)
DestroyStep ==
  /\ proc = "running" /\ pc = "destroy"
  /\ ADT_sl_list_length(List) # 0
  /\ IF head = NULL
     THEN Fault("segv") /\ UNCHANGED destroyed
     ELSE /\ Store(pop(List))
          /\ destroyed' = Append(destroyed, pop_data(List))
          /\ UNCHANGED <<proc, pc>>
  /\ UNCHANGED <<call, pre, uaf, kind, log, due>>

\* loop exit: list->head = NULL; list->tail = NULL; return
DestroyReturn ==
  /\ proc = "running" /\ pc = "destroy"
  /\ ADT_sl_list_length(List) = 0
  /\ head' = NULL
  /\ tail' = NULL
  /\ pc' = "idle"
  /\ UNCHANGED <<len, mem, live, proc, call, pre, destroyed, uaf, kind, log, due>>

Next ==
  \/ PushCall
  \/ PopCall
  \/ AppendCall
  \/ InsertAfterCall
  \/ RemoveAfterCall
  \/ DestroyCall
  \/ DestroyStep
  \/ DestroyReturn

Spec == Init /\ [][Next]_vars

(***************************************************************************)
(* Calls outside the documented preconditions.  SpecContract lets a caller *)
(* that has kept every precondition so far make one such call; whatever    *)
(* it does, the process is not called again after an abort or a fault.     *)
(***************************************************************************)

\* ADT_sl_list_pop(list, &data) called with ADT_sl_list_length(list) = 0
PopEmptyCall ==
  /\ Idle
  /\ ADT_sl_list_length(List) = 0
  /\ IF ~pop_assert(List)
     THEN /\ Fault("aborted")
          /\ Record("pop", 0, NULL, NULL, 0, 0)
     ELSE IF head = NULL
     THEN /\ Fault("segv")
          /\ Record("pop", 0, NULL, NULL, 0, 0)
     ELSE /\ Store(pop(List))
          /\ Record("pop", 0, NULL, NULL, 0, pop_data(List))
          /\ UNCHANGED <<proc, pc>>
  /\ UNCHANGED uaf

\* ADT_sl_list_remove_after(list, loc, &data) called with loc the last node
\* of the list: loc->next is NULL, so past the assert *data = loc->next->data
\* reads through NULL.
RemoveAfterLastCall ==
  /\ Idle
  /\ \E loc \in Members :
       /\ mem[loc].next = NULL
       /\ IF ~remove_after_assert(List, loc)
          THEN Fault("aborted")
          ELSE Fault("segv")
       /\ Record("remove_after", 0, loc, NULL, 0, 0)
  /\ UNCHANGED uaf

NextContract ==
  \/ Next
  \/ PopEmptyCall
  \/ RemoveAfterLastCall

SpecContract == Init /\ [][NextContract]_vars

(***************************************************************************)
(* Sanity of the model                                                     *)
(***************************************************************************)
TypeOK ==
  /\ head \in Addr \cup {NULL}
  /\ tail \in Addr \cup {NULL}
  /\ len \in 0..MaxNodes
  /\ live \subseteq Addr
  /\ len = Cardinality(live)
  /\ proc \in {"running", "aborted", "segv"}
  /\ pc \in {"idle", "destroy"}
  /\ Members \subseteq live
  /\ Len(Chain) <= MaxNodes
  /\ \A a \in Addr : a \notin live => mem[a] = Junk
  /\ \A a \in live : mem[a].next \in live \cup {NULL}

(***************************************************************************)
(* C1: between calls, len equals the number of nodes reachable from head   *)
(* by following next.                                                      *)
(***************************************************************************)
C1_LenCountsReachable == Idle => len = Len(Chain)

(***************************************************************************)
(* C2: between calls, if len is zero then head and tail are both NULL.     *)
(***************************************************************************)
C2_EmptyHasNoEnds == (Idle /\ len = 0) => (head = NULL /\ tail = NULL)

(***************************************************************************)
(* C3: between calls, if the list is non-empty then tail is the last node  *)
(* of the chain, met len - 1 steps after head.                             *)
(***************************************************************************)
C3_TailIsLast ==
  (Idle /\ len # 0) =>
     /\ Len(Chain) >= len
     /\ Chain[len] = tail
     /\ Chain[Len(Chain)] = tail

(***************************************************************************)
(* C4: with only enqueue (append) and dequeue (pop) used since init, every *)
(* dequeue returns and hands back the oldest value enqueued and not yet    *)
(* dequeued, and the list holds the pending values oldest first; also      *)
(* after the queue has been emptied and filled again.                      *)
(***************************************************************************)
C4_QueueIsFifo ==
  /\ (kind \in {"queue", "refilled"} /\ call.op = "pop") =>
        (proc = "running" /\ call.out = due)
  /\ kind \in {"append", "queue", "refilled"} => Items = LogData

\* a dequeue on a queue that was emptied and refilled, with a different
\* value still waiting behind the one dequeued
C4_Witness ==
  /\ kind = "refilled" /\ call.op = "pop"
  /\ len >= 1 /\ Items[1] # call.out

(***************************************************************************)
(* C5: after only appends on a freshly initialized list, the data from     *)
(* head to tail is the data of the appends whose node was allocated, in    *)
(* call order, and len is their number.                                    *)
(***************************************************************************)
C5_AppendKeepsOrder ==
  kind \in {"fresh", "append"} => (Items = LogData /\ len = Len(log))

C5_Witness == kind = "append" /\ len >= 2 /\ Items[1] # Items[2] /\ Items[1] = log[1].data

(***************************************************************************)
(* C6: after only pushes on a freshly initialized list, the data from head *)
(* to tail is the data of the pushes whose node was allocated, in reverse  *)
(* call order, len is their number, and tail is the first push's node.     *)
(***************************************************************************)
C6_PushReversesOrder ==
  kind = "push" =>
     /\ Items = Reverse(LogData)
     /\ len = Len(log)
     /\ log # <<>> => tail = log[1].node

C6_Witness == kind = "push" /\ len >= 2 /\ Items[1] # Items[2] /\ tail = log[1].node

(***************************************************************************)
(* C7: a push whose node was allocated, followed at once by a pop: the pop *)
(* hands back the pushed data, and len and the data from head to tail are  *)
(* what they were before the push.                                         *)
(***************************************************************************)
C7_PushPopRoundTrip ==
  [][(call.op = "push" /\ call.node # NULL /\ call'.op = "pop") =>
        /\ proc' = "running"
        /\ call'.out = call.data
        /\ len' = pre.len
        /\ Items' = pre.items]_vars

\* a pop right after a push onto a list that held something
C7_Witness == call.op = "pop" /\ call.afterPush /\ len >= 1 /\ proc = "running"

(***************************************************************************)
(* C8: len is 0 after init; a push, append or insert_after whose node was  *)
(* allocated adds exactly 1 to len; a pop or remove_after called within    *)
(* its precondition takes exactly 1 off; no other call but destroy changes *)
(* len.                                                                    *)
(***************************************************************************)
C8_LenSteps ==
  [][/\ (call'.op \in {"push", "append", "insert_after"} /\ call'.node # NULL)
          => len' = len + 1
     /\ (call'.op \in {"push", "append", "insert_after"} /\ call'.node = NULL)
          => len' = len
     /\ call'.op \in {"pop", "remove_after"} => len' = len - 1]_vars

(***************************************************************************)
(* C9: destroy on a list holding n elements gives the destructor exactly   *)
(* the n data references, each once, and leaves len = 0, head = NULL and   *)
(* tail = NULL.                                                            *)
(***************************************************************************)
C9_DestroyFreesAll ==
  (call.op = "destroy" /\ (pc = "idle" \/ proc # "running")) =>
     /\ proc = "running"
     /\ destroyed = pre.items
     /\ len = 0 /\ head = NULL /\ tail = NULL

(***************************************************************************)
(* C10: append returns -1 whenever its malloc returned NULL, and 0 only    *)
(* when the element was inserted.                                          *)
(***************************************************************************)
C10_AppendReportsFailure ==
  call.op = "append" =>
     /\ call.node = NULL => call.ret = -1
     /\ call.ret = 0 => call.node \in live

(***************************************************************************)
(* C11: remove_after called on a node that has no successor aborts at its  *)
(* assert: the process ends "aborted", the successor is never read, and    *)
(* head, tail, len and every node are as before the call.                  *)
(***************************************************************************)
C11_RemoveAfterLastAborts ==
  [][(call'.op = "remove_after" /\ mem[call'.loc].next = NULL) =>
        /\ proc' = "aborted"
        /\ UNCHANGED <<head, tail, len, mem>>]_vars

(***************************************************************************)
(* C12: pop called with len = 0 aborts at its assert: the process ends     *)
(* "aborted", nothing is handed back through data, and head, tail, len and *)
(* every node are as before the call.                                      *)
(***************************************************************************)
C12_PopEmptyAborts ==
  [][(call'.op = "pop" /\ len = 0) =>
        /\ proc' = "aborted"
        /\ call'.out = 0
        /\ UNCHANGED <<head, tail, len, mem, live>>]_vars

\* a pop that aborted on a list emptied by pops, its tail still set
C12_Witness == call.op = "pop" /\ proc = "aborted" /\ len = 0 /\ tail # NULL

(***************************************************************************)
(* C13: remove_after(loc), loc a node of the list that has a successor,    *)
(* returns, hands back the data of the node after loc, and takes exactly   *)
(* that node out: the nodes from head to tail and their data are as        *)
(* before but for the one after loc.                                       *)
(***************************************************************************)
C13_RemoveAfterUnlinks ==
  [][call'.op = "remove_after" =>
        LET i == IndexOf(Chain, call'.loc)
        IN /\ proc' = "running"
           /\ call'.out = Items[i + 1]
           /\ Chain' = Without(Chain, i + 1)
           /\ Items' = Without(Items, i + 1)
           /\ live' = live \ {Chain[i + 1]}]_vars

(***************************************************************************)
(* C14: an insert_after(loc, data) whose node was allocated, loc a node of *)
(* the list: the new node holds data and sits right after loc, its next    *)
(* being what loc's next was; the other nodes keep their order and data;   *)
(* and the new node is the tail after the call exactly when loc had no     *)
(* successor before it.                                                    *)
(***************************************************************************)
C14_InsertAfterLinks ==
  [][(call'.op = "insert_after" /\ call'.node # NULL) =>
        LET loc  == call'.loc
            node == call'.node
            i    == IndexOf(Chain, loc)
        IN /\ proc' = "running"
           /\ mem'[loc].next = node
           /\ mem'[node] = [data |-> call'.data, next |-> mem[loc].next]
           /\ Chain' = InsertAt(Chain, i, node)
           /\ Items' = InsertAt(Items, i, call'.data)
           /\ (tail' = node) <=> (mem[loc].next = NULL)]_vars

(***************************************************************************)
(* C15: no call reads or writes a node that has been freed: in particular  *)
(* the store list->tail->next = node of append never lands in a freed      *)
(* cell.                                                                   *)
(***************************************************************************)
C15_NoUseAfterFree == ~uaf

(***************************************************************************)
(* C16: destroy runs to its end: while its loop is running the process     *)
(* has neither aborted in pop's assert nor read through a NULL head, each  *)
(* turn finds a head to pop as long as len is not 0, and once it has       *)
(* returned len is 0 and head and tail are NULL.                           *)
(***************************************************************************)
C16_DestroyRunsToEnd ==
  /\ pc = "destroy" => (proc = "running" /\ (len # 0 => head # NULL))
  /\ (Idle /\ call.op = "destroy") => (len = 0 /\ head = NULL /\ tail = NULL)

(***************************************************************************)
(* C17: between calls the allocated, not yet freed nodes are exactly the   *)
(* nodes reachable from head (nothing leaked, nothing freed that is still  *)
(* linked), and once destroy has returned no node is allocated.            *)
(***************************************************************************)
C17_ListOwnsNodes ==
  /\ Idle => live = Members
  /\ (Idle /\ call.op = "destroy") => live = {}

(***************************************************************************)
(* C18: a push, append or insert_after whose malloc returned NULL leaves   *)
(* head, tail, len and every node (data and next) as they were before the  *)
(* call, and allocates nothing.                                            *)
(***************************************************************************)
C18_FailedAllocChangesNothing ==
  [][(call'.op \in {"push", "append", "insert_after"} /\ call'.node = NULL) =>
        /\ proc' = "running"
        /\ UNCHANGED <<head, tail, len, mem, live>>]_vars

\* an insert_after that found no memory, on a list holding two elements
C18_Witness ==
  /\ call.op = "insert_after" /\ call.node = NULL /\ call.ret = -1
  /\ Idle /\ len = 2 /\ Len(Chain) = 2

====
